---------------------------- MODULE Spec2Model ----------------------------
(***************************************************************************)
(* A model of src/main.py: the POST /pipeline handler run_pipeline and the *)
(* four helpers it sequences (fetch_comments, analyze_with_ai,             *)
(* store_result, send_notification).                                       *)
(*                                                                         *)
(* Text is modelled as a sequence of one-character strings, so that        *)
(* slicing (s[:80]), strip(), lower() and f-string concatenation are       *)
(* computed as Python computes them.  A JSON value is a record             *)
(* [t, s]: t is "str" (s is the text), "null", "num", "list", or           *)
(* "missing" for a key that the object does not hold.                      *)
(*                                                                         *)
(* Requests are served by processes.  Inside a process one asyncio event   *)
(* loop runs one coroutine at a time and hands over only at an await that  *)
(* really suspends: loop[p] is the request that holds process p's loop     *)
(* (0: none).  Opening the collection for writing may fail; a dump fails   *)
(* when a text of the data cannot be encoded as UTF-8 (a lone surrogate,   *)
(* which json.loads accepts in a reply or a payload as an escape), and     *)
(* then leaves the file, already truncated, cut short.  Other I/O faults   *)
(* are not modelled.                                                       *)
(***************************************************************************)
EXTENDS Integers, Sequences, FiniteSets, TLC

VARIABLES
    req,        \* per request: the locals of run_pipeline and of its callees
    file,       \* STORAGE_FILE: [t, data], t in absent / list / corrupt / nonlist
    notifyLog,  \* NOTIFICATION_LOG: the lines appended, as [email, success]
    now,        \* the clock read by datetime.utcnow()
    loop,       \* per process: the request that holds the event loop, or 0
    proc,       \* the process that serves each request
    env         \* what the surroundings may do: the answers of the comment
                \* source (upstream) and of the language-model service (llm),
                \* the sources clients post, and whether opening the
                \* collection (storeOpens) and the log (logOpens) for writing
                \* succeeds

vars == <<req, file, notifyLog, now, loop, proc, env>>

(***************************** bounds **************************************)
NReq == 2

Requests == 1..NReq

(***************************** text ****************************************)
Min(a, b) == IF a < b THEN a ELSE b

\* s[:n]
Take(s, n) == SubSeq(s, 1, Min(n, Len(s)))

\* a text of n characters (the content of a diagnostic is immaterial)
Msg(n) == [i \in 1..n |-> "x"]

IsSpace(c) == c \in {" ", "\t", "\n"}

RECURSIVE LStrip(_)
LStrip(s) == IF s # <<>> /\ IsSpace(Head(s)) THEN LStrip(Tail(s)) ELSE s

RECURSIVE RStrip(_)
RStrip(s) ==
    IF s # <<>> /\ IsSpace(s[Len(s)]) THEN RStrip(SubSeq(s, 1, Len(s) - 1)) ELSE s

\* str.strip()
Strip(s) == RStrip(LStrip(s))

UpperCase ==
    <<"A","B","C","D","E","F","G","H","I","J","K","L","M",
      "N","O","P","Q","R","S","T","U","V","W","X","Y","Z">>

LowerCase ==
    <<"a","b","c","d","e","f","g","h","i","j","k","l","m",
      "n","o","p","q","r","s","t","u","v","w","x","y","z">>

LowerChar(c) ==
    IF \E i \in 1..Len(UpperCase) : UpperCase[i] = c
    THEN LowerCase[CHOOSE i \in 1..Len(UpperCase) : UpperCase[i] = c]
    ELSE c

\* str.lower()
Lower(s) == [i \in 1..Len(s) |-> LowerChar(s[i])]

\* a lone surrogate, U+D800: a character of a Python str that UTF-8 cannot
\* encode
Surrogate == "<U+D800>"

\* whether s.encode("utf-8") succeeds
Encodable(s) == \A i \in DOMAIN s : s[i] # Surrogate

IsPrefix(p, s) == Len(p) <= Len(s) /\ SubSeq(s, 1, Len(p)) = p

(***************************** JSON values *********************************)
Str(s) == [t |-> "str", s |-> s]
Null == [t |-> "null", s |-> <<>>]
Num == [t |-> "num", s |-> <<>>]
Missing == [t |-> "missing", s |-> <<>>]

Positive == <<"p","o","s","i","t","i","v","e">>
Negative == <<"n","e","g","a","t","i","v","e">>
Neutral == <<"n","e","u","t","r","a","l">>
Sentiments == {Positive, Negative, Neutral}


(***************************** program constants ***************************)
\* data[:3] in fetch_comments
FetchCap == 3
\* str(e)[:80] in analyze_with_ai
AIDetailMax == 80
\* str(e)[:80] in run_pipeline's per-comment handler
ErrDetailMax == 80

FetchFailedPrefix == <<"F","e","t","c","h"," ","f","a","i","l","e","d",":"," ">>
AIFailedPrefix == <<"A","I"," ","f","a","i","l","e","d",":"," ">>
CommentErrorPrefix ==
    <<"C","o","m","m","e","n","t"," ","e","r","r","o","r",":"," ">>
NoSummary ==
    <<"N","o"," ","s","u","m","m","a","r","y"," ",
      "a","v","a","i","l","a","b","l","e">>

\* str(e) of the AttributeError / TypeError Python raises on a value of the
\* wrong type ("'NoneType' object has no attribute 'lower'" and the like)
TypeErrorMsg == Msg(43)

(***************************** fetch_comments ******************************)
\* What the GET can end in: o.t = "raise" (network error, timeout,
\* raise_for_status, resp.json() failing; o.msg is str(e)), or o.t = "json"
\* with the decoded payload o.val: "list" (o.elems its elements), "str"
\* (o.elems its characters), "dict", "null" or "num".
\* A comment is [t, body]: t = "dict" for a JSON object (body is the value
\* under "body", Missing when the key is absent), "other" for anything else.
Comment(body) == [t |-> "dict", body |-> body]
NotAnObject == [t |-> "other", body |-> Missing]

Raised(m) == [raised |-> TRUE, msg |-> m, val |-> <<>>]
Returned(v) == [raised |-> FALSE, msg |-> <<>>, val |-> v]

\* the except clause re-raising the error as it came
FetchCommentsReraise(o) ==
    IF o.t = "raise" THEN Raised(o.msg)
    ELSE IF o.val \in {"list", "str"} THEN Returned(Take(o.elems, FetchCap))
    ELSE Raised(TypeErrorMsg)

FetchComments(o) ==
    IF o.t = "raise" THEN Raised(FetchFailedPrefix \o o.msg)
    ELSE IF o.val \in {"list", "str"} THEN Returned(Take(o.elems, FetchCap))
    ELSE Raised(FetchFailedPrefix \o TypeErrorMsg)

(***************************** run_pipeline: the text of a comment *********)
\* comment.get("body", "").strip()
ExtractText(c) ==
    IF c.t # "dict" THEN Raised(TypeErrorMsg)
    ELSE LET body == IF c.body = Missing THEN Str(<<>>) ELSE c.body
         IN  IF body.t # "str" THEN Raised(TypeErrorMsg)
             ELSE Returned(Strip(body.s))

\* the handler recording str(e)[:80] alone
CommentErrorBare(m) == Take(m, ErrDetailMax)

\* f"Comment error: {str(e)[:80]}"
CommentError(m) == CommentErrorPrefix \o Take(m, ErrDetailMax)

(***************************** analyze_with_ai *****************************)
\* What the completion call can end in: r.t = "raise" (the call fails, r.msg
\* is str(e)), "invalid" (json.loads fails on the content, r.msg is str(e)),
\* "nondict" (the content is JSON but no object), "dict" (an object, with
\* r.summary and r.sentiment the values under these keys or Missing).
\* the except branch keeping the whole of str(e)
AIFailedUncut(m) ==
    [summary |-> AIFailedPrefix \o m, sentiment |-> Neutral]

AIFailed(m) ==
    [summary |-> AIFailedPrefix \o Take(m, AIDetailMax), sentiment |-> Neutral]

AnalyzeWithAI(r) ==
    CASE r.t \in {"raise", "invalid"} -> AIFailed(r.msg)
      [] r.t = "nondict" -> AIFailed(TypeErrorMsg)
      [] OTHER ->
           LET summary == IF r.summary = Missing THEN NoSummary ELSE r.summary.s
               sentiment ==
                   IF r.sentiment = Missing THEN Str(Neutral) ELSE r.sentiment
           IN  IF sentiment.t # "str" THEN AIFailed(TypeErrorMsg)
               ELSE [summary |-> summary, sentiment |-> Lower(sentiment.s)]

(***************************** run_pipeline: the item **********************)
MakeItem(text, ai, ts) ==
    [original |-> text, analysis |-> ai.summary, sentiment |-> ai.sentiment,
     stored |-> FALSE, timestamp |-> ts]

NoItem == MakeItem(<<>>, [summary |-> <<>>, sentiment |-> <<>>], 0)

(***************************** store_result ********************************)
\* record = {**item, "source": source}
StoreRecord(item, source) ==
    [original |-> item.original, analysis |-> item.analysis,
     sentiment |-> item.sentiment, stored |-> item.stored,
     timestamp |-> item.timestamp, source |-> source]

NoRecord == StoreRecord(NoItem, "")

AbsentFile == [t |-> "absent", data |-> <<>>]
CorruptFile == [t |-> "corrupt", data |-> <<>>]
\* a file that holds valid JSON which is no array
NonListFile == [t |-> "nonlist", data |-> <<>>]
ListFile(d) == [t |-> "list", data |-> d]

\* the collection never read back: every store starts from []
LoadDataFresh(f) ==
    [isList |-> f.t # "nonlist", data |-> <<>>]

\* data = [] ; if the file exists: json.load, or [] when that fails
LoadData(f) ==
    CASE f.t = "list" -> [isList |-> TRUE, data |-> f.data]
      [] f.t = "nonlist" -> [isList |-> FALSE, data |-> <<>>]
      [] OTHER -> [isList |-> TRUE, data |-> <<>>]

\* the record put first (data.insert(0, record))
DumpedFileFirst(d, record) == ListFile(<<record>> \o d)

\* data.append(record); json.dump(data, f)
DumpedFile(d, record) == ListFile(Append(d, record))

\* json.dump(..., ensure_ascii=False) into a file opened with
\* encoding="utf-8" raises UnicodeEncodeError on a text it cannot encode
DumpFails(d, record) ==
    \E x \in {record} \cup {d[i] : i \in DOMAIN d} :
       ~(Encodable(x.original) /\ Encodable(x.analysis) /\ Encodable(x.sentiment))

(***************************** send_notification ***************************)
\* len(items) >= 0
NotifySuccessAlways(items) == Len(items) >= 0

\* len(items) > 0
NotifySuccess(items) == Len(items) > 0

\* the notifier returning its success argument
NotificationSentIsSuccess(success) == success

\* return True
NotificationSent(success) == TRUE

(***************************** inputs **************************************)
\* the length of a diagnostic longer than the 80 characters that are kept
LongMsgLen == 81

TextA == <<" ","h","i"," ">>
TextB == <<"o","k">>
Blank == <<" ","\t">>

CommentA == Comment(Str(TextA))
CommentB == Comment(Str(TextB))
BlankComment == Comment(Str(Blank))
NoBodyComment == Comment(Missing)
NullBodyComment == Comment(Null)

FetchRaises(m) == [t |-> "raise", msg |-> m, val |-> "none", elems |-> <<>>]
Payload(v, e) == [t |-> "json", msg |-> <<>>, val |-> v, elems |-> e]

FetchOutcomes ==
    { FetchRaises(Msg(7)),
      Payload("dict", <<>>),
      Payload("str", <<NotAnObject, NotAnObject>>),
      Payload("list", <<>>),
      Payload("list", <<CommentA, BlankComment, NotAnObject, CommentB>>),
      Payload("list", <<NoBodyComment, NullBodyComment, CommentB>>),
      Payload("list", <<CommentA, CommentB, CommentA>>) }

FewFetchOutcomes ==
    { FetchRaises(Msg(7)),
      Payload("list", <<CommentB>>),
      Payload("list", <<NotAnObject, CommentA>>) }

Reply(t, m, summary, sentiment) ==
    [t |-> t, msg |-> m, summary |-> summary, sentiment |-> sentiment]

GoodReply ==
    Reply("dict", <<>>, Str(<<"f","i","n","e">>),
          Str(<<"P","o","s","i","t","i","v","e">>))
MixedReply ==
    Reply("dict", <<>>, Str(<<"s","o","-","s","o">>), Str(<<"M","i","x","e","d">>))
EmptyReply == Reply("dict", <<>>, Missing, Missing)
NullSentimentReply == Reply("dict", <<>>, Str(<<"f","i","n","e">>), Null)
CallFails == Reply("raise", Msg(LongMsgLen), Missing, Missing)
InvalidReply == Reply("invalid", Msg(12), Missing, Missing)
ListReply == Reply("nondict", <<>>, Missing, Missing)
\* {"summary": "bad\ud800", "sentiment": "neutral"}
SurrogateReply == Reply("dict", <<>>, Str(<<"b","a","d",Surrogate>>), Str(Neutral))

AIReplies ==
    { GoodReply, MixedReply, EmptyReply, NullSentimentReply,
      CallFails, InvalidReply, ListReply, SurrogateReply }

FewAIReplies == { GoodReply, CallFails, SurrogateReply }

Sources == {"feed", "blog"}
Emails == {"ops@example.org"}

\* a record that an earlier run left in the collection
OldRecord ==
    StoreRecord(MakeItem(TextB, [summary |-> NoSummary, sentiment |-> Neutral], 0),
                "feed")

InitFiles ==
    { AbsentFile, CorruptFile, NonListFile, ListFile(<<>>), ListFile(<<OldRecord>>) }

(***************************** state ***************************************)
Ev(e, i, f) == [e |-> e, i |-> i, flag |-> f]

\* A request that has not arrived.  comments .. sent are run_pipeline's
\* locals, record/data/ret those of store_result; the rest is history:
\* fetched ("no", "ok", "failed"), the number of comments skipped as empty,
\* the events of the run in order, the collection as it was when the fetch
\* returned and when store_result was last called.
IdleRequest ==
    [pc |-> "idle", email |-> "", source |-> "",
     comments |-> <<>>, idx |-> 0, text |-> <<>>, item |-> NoItem,
     items |-> <<>>, errors |-> <<>>, sent |-> FALSE,
     record |-> NoRecord, data |-> LoadData(AbsentFile), ret |-> FALSE,
     fetched |-> "no", skipped |-> 0, trace |-> <<>>, replies |-> <<>>,
     fileAtFetch |-> AbsentFile, fileAtCall |-> AbsentFile]

InitCommon ==
    /\ req = [r \in Requests |-> IdleRequest]
    /\ notifyLog = <<>>
    /\ now = 1
    /\ loop = [p \in Requests |-> 0]

\* one request, every input and every I/O outcome
Init ==
    /\ InitCommon
    /\ file \in InitFiles
    /\ proc = [r \in Requests |-> 1]
    /\ env = [upstream |-> FetchOutcomes, llm |-> AIReplies, sources |-> Sources,
              storeOpens |-> BOOLEAN, logOpens |-> BOOLEAN]

(***************************** the event loop *******************************)
\* The points of run_pipeline at which the coroutine is suspended, waiting for
\* I/O: only the GET of fetch_comments (await client.get).  The awaits of
\* analyze_with_ai, store_result and send_notification run coroutines that
\* hold no await themselves, so they never hand the loop over.
Suspends(pc) == pc = "fetching"

\* r may take a step: it holds its process's loop, or the loop is free and
\* r is arriving or waiting to be resumed
CanRun(r) ==
    \/ loop[proc[r]] = r
    \/ loop[proc[r]] = 0 /\ (req[r].pc = "idle" \/ Suspends(req[r].pc))

\* after a step of r to the point pc, r keeps the loop unless it is suspended
\* or has returned
Schedule(r, pc) ==
    loop' = [loop EXCEPT ![proc[r]] = IF Suspends(pc) \/ pc = "done" THEN 0 ELSE r]

(***************************** run_pipeline ********************************)
\* lines 88-93: the request arrives, the handler starts and suspends in
\* fetch_comments at the await of the GET
Begin(r) ==
    /\ req[r].pc = "idle"
    /\ CanRun(r)
    /\ \E src \in env.sources, em \in Emails :
         req' = [req EXCEPT ![r] =
                    [@ EXCEPT !.pc = "fetching", !.email = em, !.source = src,
                              !.trace = <<Ev("fetch", 0, FALSE)>>]]
    /\ Schedule(r, "fetching")
    /\ UNCHANGED <<file, notifyLog, now, proc, env>>

\* lines 21-30 and 92-96: the GET ends, the loop resumes the handler
FetchDone(r) ==
    /\ req[r].pc = "fetching"
    /\ CanRun(r)
    /\ \E o \in env.upstream :
         LET res == FetchComments(o)
         IN  req' = [req EXCEPT ![r] =
                [@ EXCEPT !.pc = "loop", !.idx = 1,
                          !.comments = IF res.raised THEN <<>> ELSE res.val,
                          !.errors = IF res.raised THEN Append(@, res.msg) ELSE @,
                          !.fetched = IF res.raised THEN "failed" ELSE "ok",
                          !.fileAtFetch = file]]
    /\ Schedule(r, "loop")
    /\ UNCHANGED <<file, notifyLog, now, proc, env>>

\* lines 98-102 and 113-114: the next comment's text; an exception ends this
\* comment with an error entry, an empty text ends it silently
NextComment(r) ==
    /\ req[r].pc = "loop"
    /\ CanRun(r)
    /\ req[r].idx <= Len(req[r].comments)
    /\ LET res == ExtractText(req[r].comments[req[r].idx])
       IN  req' = [req EXCEPT ![r] =
              LET seen == Append(req[r].trace, Ev("comment", req[r].idx, FALSE))
              IN  IF res.raised
                  THEN [@ EXCEPT !.errors = Append(@, CommentError(res.msg)),
                                 !.idx = @ + 1, !.trace = seen]
                  ELSE IF res.val = <<>>
                  THEN [@ EXCEPT !.skipped = @ + 1, !.idx = @ + 1, !.trace = seen]
                  ELSE [@ EXCEPT !.text = res.val, !.pc = "analyze",
                                 !.trace = seen]]
    /\ Schedule(r, req'[r].pc)
    /\ UNCHANGED <<file, notifyLog, now, proc, env>>

\* lines 103-110: analyze_with_ai (lines 32-58, which holds no await that
\* suspends: the completion call is synchronous) and the item
Analyze(r) ==
    /\ req[r].pc = "analyze"
    /\ CanRun(r)
    /\ \E reply \in env.llm :
         req' = [req EXCEPT ![r] =
                    [@ EXCEPT !.item = MakeItem(req[r].text, AnalyzeWithAI(reply), now),
                              !.replies = Append(@, reply),
                              !.trace = Append(@, Ev("analyze", req[r].idx, FALSE)),
                              !.pc = "store"]]
    /\ now' = now + 1
    /\ Schedule(r, "store")
    /\ UNCHANGED <<file, notifyLog, proc, env>>

\* lines 60-69: store_result is called and reads the collection
StoreRead(r) ==
    /\ req[r].pc = "store"
    /\ CanRun(r)
    /\ req' = [req EXCEPT ![r] =
                  [@ EXCEPT !.record = StoreRecord(req[r].item, req[r].source),
                            !.data = LoadData(file),
                            !.fileAtCall = file,
                            !.pc = "write"]]
    /\ Schedule(r, "write")
    /\ UNCHANGED <<file, notifyLog, now, proc, env>>

\* lines 70-75: append and rewrite.  The append fails on data that is no
\* list and opening the file for writing may fail, which leave the file as it
\* is; open(.., "w") truncates it, so a dump that fails leaves it cut short,
\* which no json.load parses.  Every failure returns False.
StoreWrite(r) ==
    /\ req[r].pc = "write"
    /\ CanRun(r)
    /\ \E opens \in env.storeOpens :
         LET opened == req[r].data.isList /\ opens
             ok == opened /\ ~DumpFails(req[r].data.data, req[r].record)
         IN  /\ file' = IF ok THEN DumpedFile(req[r].data.data, req[r].record)
                        ELSE IF opened THEN CorruptFile
                        ELSE file
             /\ req' = [req EXCEPT ![r] =
                           [@ EXCEPT !.ret = ok, !.pc = "collect",
                                     !.trace = Append(@, Ev("store", req[r].idx, ok))]]
    /\ Schedule(r, "collect")
    /\ UNCHANGED <<notifyLog, now, proc, env>>

\* lines 111-112: the outcome goes into the item, the item into items
Collect(r) ==
    /\ req[r].pc = "collect"
    /\ CanRun(r)
    /\ req' = [req EXCEPT ![r] =
                  [@ EXCEPT !.items = Append(@, [req[r].item EXCEPT !.stored = req[r].ret]),
                            !.idx = @ + 1, !.pc = "loop"]]
    /\ Schedule(r, "loop")
    /\ UNCHANGED <<file, notifyLog, now, proc, env>>

\* lines 116 and 77-85: after the last comment the notifier is called; a
\* failure to append to the log is ignored
Notify(r) ==
    /\ req[r].pc = "loop"
    /\ CanRun(r)
    /\ req[r].idx > Len(req[r].comments)
    /\ LET success == NotifySuccess(req[r].items)
       IN  /\ \E logged \in env.logOpens :
                notifyLog' =
                    IF logged
                    THEN Append(notifyLog, [email |-> req[r].email, success |-> success])
                    ELSE notifyLog
           /\ req' = [req EXCEPT ![r] =
                         [@ EXCEPT !.sent = NotificationSent(success),
                                   !.trace = Append(@, Ev("notify", 0, success)),
                                   !.pc = "respond"]]
    /\ Schedule(r, "respond")
    /\ UNCHANGED <<file, now, proc, env>>

\* lines 118-123: the response; the handler ends and frees the loop
Respond(r) ==
    /\ req[r].pc = "respond"
    /\ CanRun(r)
    /\ req' = [req EXCEPT ![r] =
                  [@ EXCEPT !.trace = Append(@, Ev("respond", 0, FALSE)),
                            !.pc = "done"]]
    /\ Schedule(r, "done")
    /\ UNCHANGED <<file, notifyLog, now, proc, env>>

Step(r) ==
    \/ Begin(r)
    \/ FetchDone(r)
    \/ NextComment(r)
    \/ Analyze(r)
    \/ StoreRead(r)
    \/ StoreWrite(r)
    \/ Collect(r)
    \/ Notify(r)
    \/ Respond(r)

Next == Step(1)

Spec == Init /\ [][Next]_vars

(***************************** concurrent requests *************************)
\* all requests served by one process (one event loop), fewer inputs
InitLoop ==
    /\ InitCommon
    /\ file \in InitFiles
    /\ proc = [r \in Requests |-> 1]
    /\ env = [upstream |-> FewFetchOutcomes, llm |-> FewAIReplies,
              sources |-> Sources, storeOpens |-> BOOLEAN, logOpens |-> {TRUE}]

\* each request served by a process of its own (several workers), one
\* comment each
InitProcs ==
    /\ InitCommon
    /\ file \in InitFiles
    /\ proc = [r \in Requests |-> r]
    /\ env = [upstream |-> {Payload("list", <<CommentB>>)}, llm |-> {GoodReply},
              sources |-> {"blog"}, storeOpens |-> BOOLEAN, logOpens |-> {TRUE}]

NextAll == \E r \in Requests : Step(r)

SpecLoop == InitLoop /\ [][NextAll]_vars

SpecProcs == InitProcs /\ [][NextAll]_vars

(***************************** properties **********************************)
Range(q) == {q[i] : i \in DOMAIN q}

Responded(r) == req[r].pc = "done"
Responding(r) == req[r].pc \in {"respond", "done"}

\* the 'Comment error' entries of r's errors
CommentErrors(r) ==
    Cardinality({i \in DOMAIN req[r].errors :
                    IsPrefix(CommentErrorPrefix, req[r].errors[i])})

\* the comments of r whose handling is over
Handled(r) ==
    IF req[r].pc \in {"analyze", "store", "write", "collect"}
    THEN req[r].idx - 1
    ELSE IF req[r].pc \in {"idle", "fetching"} THEN 0
    ELSE Min(req[r].idx - 1, Len(req[r].comments))

\* C1: every fetched comment ends as exactly one of an item, a silent skip
\* or one 'Comment error' entry, and an error on one comment does not stop
\* the later ones: after each comment the three counts add up to the number
\* of comments handled, and at the response to the number fetched.
C1_EveryCommentAccounted ==
    \A r \in Requests :
      /\ Len(req[r].items) + req[r].skipped + CommentErrors(r) = Handled(r)
      /\ Responding(r) =>
           Len(req[r].items) + req[r].skipped + CommentErrors(r)
             = Len(req[r].comments)

\* a run in which a comment is skipped, the next one fails and the one after
\* it still becomes an item
C1_Witness ==
    \E r \in Requests :
      /\ Responded(r)
      /\ req[r].comments = <<NoBodyComment, NullBodyComment, CommentB>>
      /\ req[r].skipped = 1
      /\ CommentErrors(r) = 1
      /\ Len(req[r].items) = 1
      /\ req[r].items[1].original = TextB

TraceHas(r, e) == \E j \in DOMAIN req[r].trace : req[r].trace[j].e = e

\* C2: a failed fetch does not abort the run: nothing is analyzed or stored,
\* items stays empty, errors holds the fetch error and nothing else, the
\* collection is as the fetch left it, and the run goes on to its response.
C2_FetchFailureIsolated ==
    \A r \in Requests :
      req[r].fetched = "failed" =>
        /\ req[r].items = <<>>
        /\ Len(req[r].errors) = 1
        /\ IsPrefix(FetchFailedPrefix, req[r].errors[1])
        /\ ~TraceHas(r, "analyze") /\ ~TraceHas(r, "store")
        /\ file = req[r].fileAtFetch
        /\ req[r].pc \in {"loop", "respond", "done"}
        /\ ~Responded(r) => ENABLED Step(r)

C2_Witness ==
    \E r \in Requests :
      /\ Responded(r)
      /\ req[r].fetched = "failed"
      /\ req[r].errors = <<FetchFailedPrefix \o Msg(7)>>
      /\ file = ListFile(<<OldRecord>>)

\* the records that the runs of this model appended to the collection
Persisted == {x \in Range(file.data) : x.timestamp > 0}

\* C3: every item returned or persisted has a sentiment among positive,
\* negative and neutral, whatever the language-model service replies.
C3_SentimentInEnum ==
    /\ \A r \in Requests : \A k \in DOMAIN req[r].items :
         req[r].items[k].sentiment \in Sentiments
    /\ \A x \in Persisted : x.sentiment \in Sentiments

NotifyFlags(r) ==
    {req[r].trace[j].flag : j \in {i \in DOMAIN req[r].trace : req[r].trace[i].e = "notify"}}

\* C4 as stated: with no item processed (an empty fetch included) the
\* response has notificationSent == false.
C4_NotSentWithoutItems ==
    \A r \in Requests :
      Responded(r) /\ req[r].items = <<>> => req[r].sent = FALSE

\* C4 as amended: an empty fetch gives items == [] and errors == []; the
\* success flag handed to the notifier is false whenever no item was
\* processed; notificationSent is true in every response.
C4_FlagFalseSentTrue ==
    \A r \in Requests :
      Responding(r) =>
        /\ req[r].sent = TRUE
        /\ req[r].items = <<>> => NotifyFlags(r) = {FALSE}
        /\ req[r].fetched = "ok" /\ req[r].comments = <<>> =>
             req[r].items = <<>> /\ req[r].errors = <<>>

C4_Witness ==
    \E r \in Requests :
      /\ Responded(r)
      /\ req[r].fetched = "ok"
      /\ req[r].comments = <<>>
      /\ req[r].items = <<>>
      /\ req[r].sent

\* what json.load gives for the collection; [] for no file or a corrupt one
ParsedCollection(f) == IF f.t = "list" THEN f.data ELSE <<>>

\* C5: whatever the collection file was (absent, a valid collection,
\* corrupt), a store_result call that returns true leaves the prior parsed
\* collection with the new record, carrying the given source, appended last.
C5_StoreAppends ==
    \A r \in Requests :
      req[r].pc = "collect" /\ req[r].ret =>
        /\ req[r].fileAtCall.t \in {"absent", "list", "corrupt"}
        /\ file.t = "list"
        /\ Len(file.data) = Len(ParsedCollection(req[r].fileAtCall)) + 1
        /\ SubSeq(file.data, 1, Len(file.data) - 1)
             = ParsedCollection(req[r].fileAtCall)
        /\ file.data[Len(file.data)]
             = [original |-> req[r].item.original, analysis |-> req[r].item.analysis,
                sentiment |-> req[r].item.sentiment, stored |-> req[r].item.stored,
                timestamp |-> req[r].item.timestamp, source |-> req[r].source]

\* a run that found the file corrupt: its first store left one record, its
\* second store two
C5_Witness ==
    \E r \in Requests :
      /\ req[r].pc = "collect" /\ req[r].ret
      /\ req[r].fileAtFetch = CorruptFile
      /\ Len(req[r].fileAtCall.data) = 1
      /\ Len(file.data) = 2

\* whether analyze_with_ai takes its except branch on reply x
AnalysisFails(x) ==
    \/ x.t \in {"raise", "invalid", "nondict"}
    \/ x.t = "dict" /\ x.sentiment # Missing /\ x.sentiment.t # "str"

FailedReplies(r) ==
    {k \in DOMAIN req[r].replies : AnalysisFails(req[r].replies[k])}

NonEmptyComment(c) ==
    c.t = "dict" /\ c.body.t = "str" /\ \E i \in DOMAIN c.body.s : ~IsSpace(c.body.s[i])

\* C6: a failed or unparsable analysis raises nothing: the comment still
\* becomes an item, neutral, its analysis the diagnostic prefix followed by at
\* most 80 characters, and errors gets no entry for it; three non-empty
\* comments of which one analysis fails give three items, no error and
\* notificationSent true.
C6_DegradedAnalysis ==
    \A r \in Requests :
      /\ \A k \in DOMAIN req[r].items :
           AnalysisFails(req[r].replies[k]) =>
             /\ req[r].items[k].sentiment = Neutral
             /\ IsPrefix(AIFailedPrefix, req[r].items[k].analysis)
             /\ Len(req[r].items[k].analysis) - Len(AIFailedPrefix) <= 80
      /\ Len(req[r].replies) = Len(req[r].items)
           + (IF req[r].pc \in {"store", "write", "collect"} THEN 1 ELSE 0)
      /\ Len(req[r].errors) =
           (IF req[r].fetched = "failed" THEN 1 ELSE 0)
           + Cardinality({i \in 1..Handled(r) :
                            ExtractText(req[r].comments[i]).raised})
      /\ ( /\ Responded(r)
           /\ Len(req[r].comments) = 3
           /\ \A i \in 1..3 : NonEmptyComment(req[r].comments[i])
           /\ Cardinality(FailedReplies(r)) = 1 )
         => Len(req[r].items) = 3 /\ req[r].errors = <<>> /\ req[r].sent = TRUE

C6_Witness ==
    \E r \in Requests :
      /\ Responded(r)
      /\ Len(req[r].comments) = 3
      /\ \A i \in 1..3 : NonEmptyComment(req[r].comments[i])
      /\ FailedReplies(r) = {2}
      /\ req[r].replies[2] = CallFails
      /\ Len(req[r].items) = 3
      /\ Len(req[r].items[2].analysis) = Len(AIFailedPrefix) + 80
      /\ req[r].items[1].sentiment = Positive

\* which event may follow which in a run over n comments
Follows(a, b, n) ==
    CASE a.e = "fetch" ->
           \/ b.e = "comment" /\ b.i = 1
           \/ b.e = "notify" /\ n = 0
      [] a.e = "comment" ->
           \/ b.e = "analyze" /\ b.i = a.i
           \/ b.e = "comment" /\ b.i = a.i + 1
           \/ b.e = "notify" /\ a.i = n
      [] a.e = "analyze" -> b.e = "store" /\ b.i = a.i
      [] a.e = "store" ->
           \/ b.e = "comment" /\ b.i = a.i + 1
           \/ b.e = "notify" /\ a.i = n
      [] a.e = "notify" -> b.e = "respond"
      [] OTHER -> FALSE

IsStore(ev) == ev.e = "store"
Stores(r) == SelectSeq(req[r].trace, IsStore)

\* C8: one run is strictly ordered: the fetch once and first; the comments
\* one at a time in the order fetched, the analysis and the store of one
\* over before the next is touched, so that items and the records appended
\* are in fetch order; the notifier once, after the last comment and before
\* the response, with success true iff an item was processed.
C8_RunIsOrdered ==
    \A r \in Requests :
      LET tr == req[r].trace
      IN  /\ tr # <<>> => tr[1].e = "fetch"
          /\ \A j \in 1..(Len(tr) - 1) :
               Follows(tr[j], tr[j + 1], Len(req[r].comments))
          /\ Responded(r) => tr[Len(tr)].e = "respond"
          /\ Responding(r) => NotifyFlags(r) = {Len(req[r].items) > 0}
          /\ \A k \in DOMAIN req[r].items :
               /\ req[r].items[k].original
                    = ExtractText(req[r].comments[Stores(r)[k].i]).val
               /\ req[r].items[k].stored = Stores(r)[k].flag
               /\ k > 1 => req[r].items[k - 1].timestamp < req[r].items[k].timestamp
          /\ \A i, j \in DOMAIN file.data :
               i < j /\ file.data[i].timestamp > 0 =>
                 file.data[i].timestamp < file.data[j].timestamp

\* a run over three comments that stored all three
C8_Witness ==
    \E r \in Requests :
      /\ Responded(r)
      /\ Len(req[r].trace) = 12
      /\ Len(req[r].items) = 3
      /\ Cardinality(Persisted) = 3
      /\ NotifyFlags(r) = {TRUE}

\* the record store_result wrote for an item that run_pipeline returned
RecordOf(it, source) ==
    [original |-> it.original, analysis |-> it.analysis,
     sentiment |-> it.sentiment, stored |-> FALSE,
     timestamp |-> it.timestamp, source |-> source]

\* C9: the record is written before the store outcome is copied into the
\* item, so every persisted record has stored == false; for every returned
\* item with stored == true the collection holds the record with the same
\* original, analysis, sentiment and timestamp plus the request's source,
\* which differs from the item in its stored field.
C9_PersistedBeforeOutcome ==
    /\ \A x \in Range(file.data) : x.stored = FALSE
    /\ \A r \in Requests : \A k \in DOMAIN req[r].items :
         req[r].items[k].stored =>
           /\ RecordOf(req[r].items[k], req[r].source) \in Range(file.data)
           /\ RecordOf(req[r].items[k], req[r].source).stored
                # req[r].items[k].stored

\* what does hold of the persisted records: each has stored == false, and
\* when store_result has just returned true the last one is the item's
PersistedNotStored ==
    /\ \A x \in Range(file.data) : x.stored = FALSE
    /\ \A r \in Requests :
         req[r].pc = "collect" /\ req[r].ret =>
           file.data[Len(file.data)] = RecordOf(req[r].item, req[r].source)

Running == {"loop", "analyze", "store", "write", "collect", "respond"}

\* the stores that returned true
Acked ==
    {<<r, k>> \in Requests \X (1..FetchCap) :
        k \in DOMAIN req[r].items /\ req[r].items[k].stored}
      \cup {<<r, 0>> : r \in {q \in Requests : req[q].pc = "collect" /\ req[q].ret}}

\* C10: in one process a request is suspended only in the fetch, so a
\* store's read-append-rewrite is never interleaved with another request,
\* and every store that returned true has its record in the collection:
\* nothing is lost.
C10_NoLostUpdateInOneLoop ==
    /\ \A r \in Requests :
         /\ req[r].pc \in Running =>
              /\ loop[proc[r]] = r
              /\ \A q \in Requests \ {r} : req[q].pc \notin Running
         /\ req[r].pc = "write" => file = req[r].fileAtCall
         /\ req[r].pc = "collect" /\ req[r].ret =>
              file.data[Len(file.data)] = req[r].record
         /\ \A k \in DOMAIN req[r].items :
              req[r].items[k].stored =>
                RecordOf(req[r].items[k], req[r].source) \in Range(file.data)
    /\ Cardinality(Persisted) = Cardinality(Acked)

\* two requests of one process, both in flight during the first one's run,
\* both stored
\* what does hold in one process: between its fetch and its response a
\* request runs alone, and nothing is written between a store's read and its
\* rewrite
StoreNotInterleaved ==
    \A r \in Requests :
      /\ req[r].pc \in Running =>
           /\ loop[proc[r]] = r
           /\ \A q \in Requests \ {r} : req[q].pc \notin Running
      /\ req[r].pc = "write" => file = req[r].fileAtCall

\* C7: across processes the store is a non-atomic read-modify-write: a store
\* that returns true rewrites the collection as what it read when it was
\* called plus its record, whatever was written since (last writer wins), so
\* two concurrent stores can both return true and leave one record.
C7_LastWriterWins ==
    [][\A r \in Requests :
         req[r].pc = "write" /\ req'[r].pc = "collect" /\ req'[r].ret =>
           file' = ListFile(Append(ParsedCollection(req[r].fileAtCall),
                                   req[r].record))]_vars

\* both stores returned true and the collection holds the record of one
C7_LostUpdate ==
    \E r, q \in Requests :
      /\ r # q
      /\ Responded(r) /\ req[r].items # <<>> /\ req[r].items[1].stored
      /\ Responded(q) /\ req[q].items # <<>> /\ req[q].items[1].stored
      /\ RecordOf(req[r].items[1], req[r].source) \notin Range(file.data)
      /\ RecordOf(req[q].items[1], req[q].source) \in Range(file.data)
      /\ Cardinality(Persisted) = 1

=============================================================================
